---- MODULE Spec2Model ----
(***************************************************************************)
(* Model of the documentation ingestion pipeline of gitbook_rag:           *)
(* discovery (llms.txt manifest + sitemap), reconciliation, section        *)
(* filter, fetch, clean, chunk, and the Chroma index build driven by       *)
(* bootstrap_chroma.                                                       *)
(*                                                                         *)
(* Representation choices.                                                 *)
(*   - A URL path is a sequence of segments, a segment a sequence of       *)
(*     atoms; the atom ".md" is the markdown extension, so that            *)
(*     str.replace(".md", "") is the removal of every ".md" atom.          *)
(*   - An Optional[T] value is a record [some, v]; v is a placeholder of   *)
(*     type T when some = FALSE.                                           *)
(*   - A markdown text is a sequence of lines; a line is a record          *)
(*     [k, lvl, name, tokens, text, trs] with k = "h" (heading of level    *)
(*     lvl), "t" (prose), "d" (a line holding only a {% ... %}             *)
(*     directive), "b" (empty line), "table" (a line holding one <table>   *)
(*     element with rows trs).  text is the line split at white space      *)
(*     into atoms; tokens is the tiktoken length of the line.              *)
(***************************************************************************)
EXTENDS Integers, Sequences, FiniteSets, TLC

VARIABLES
    pages,      \* the page list (one list object, mutated in place)
    meta,       \* sitemap metadata mapping: URL -> [lastmod, priority]
    docs,       \* the chunk list returned by the chunker
    http,       \* responses served to the GETs of the current call, in order
    call,       \* library harness: the last call [op, limit]
    exc,        \* exception that left the last call ("None" when it returned)
    pc,         \* bootstrap_chroma: position in the function
    log,        \* bootstrap_chroma: stages executed / messages logged, in order
    persist,    \* the persist directory: [exists, written]
    built,      \* history: "none" | "partial" | "complete" (state of the index on disk)
    cleaner     \* a call of the cleaning functions: [op, arg, md, pc, nth]

vars == <<pages, meta, docs, http, call, exc, pc, log, persist, built, cleaner>>

----------------------------------------------------------------------------
(* Bounds of the model *)

MaxManifest == 2
MaxSitemap == 2
MaxLimit == 2
MaxLibPages == 2
MaxCleanLen == 3
MaxReapply == 1

----------------------------------------------------------------------------
(* Optional values *)

NoneDate == [some |-> FALSE, v |-> [y |-> 0, m |-> 0, d |-> 0]]
NoneInt == [some |-> FALSE, v |-> 0]
NoneMd == [some |-> FALSE, v |-> <<>>]
Some(x) == [some |-> TRUE, v |-> x]

----------------------------------------------------------------------------
(* config.py *)

BASE_URL == "developers.oxylabs.io"

----------------------------------------------------------------------------
(* URLs *)

MdAtom == ".md"

\* str.replace(".md", "") on one path segment
RECURSIVE StripMd(_)
StripMd(seg) ==
    IF seg = <<>> THEN <<>>
    ELSE IF Head(seg) = MdAtom THEN StripMd(Tail(seg))
    ELSE <<Head(seg)>> \o StripMd(Tail(seg))

\* md_path.replace(".md", "")
ReplaceMd(path) == [i \in 1..Len(path) |-> StripMd(path[i])]

\* urljoin(base_url, path) for an absolute path: the base's host, the given path
urljoin(base, path) == [host |-> base, path |-> path]

\* urlparse(web_url).path.strip("/").split("/")[0]
FirstSegment(url) ==
    LET segs == SelectSeq(url.path, LAMBDA s : s # <<>>)
    IN IF segs = <<>> THEN <<>> ELSE segs[1]

NoUrl == [host |-> "", path |-> <<>>]

----------------------------------------------------------------------------
(* models.py: Page *)

\* Page(url=..., md_url=..., title=..., section=...) with the field defaults
NewPage(web_url, md_url, title, section) ==
    [url |-> web_url, md_url |-> md_url, title |-> title, md |-> NoneMd,
     lastmod |-> NoneDate, priority |-> NoneInt, section |-> section,
     source |-> "llms.txt", loaded |-> FALSE, scraped_at |-> NoneDate]

\* Page.to_metadata
to_metadata(p) ==
    [url |-> p.url, md_url |-> p.md_url, title |-> p.title, section |-> p.section,
     source |-> p.source, priority |-> p.priority, lastmod |-> p.lastmod,
     scraped_at |-> p.scraped_at, loaded |-> p.loaded]

----------------------------------------------------------------------------
(* utils.py: discovery *)

\* Link targets that occur in the manifest texts considered
PathIntro == << <<"proxies">>, <<"intro", MdAtom>> >>
PathIntro2 == << <<"proxies">>, <<"intro", MdAtom, MdAtom>> >>
PathFaq == << <<"guides">>, <<"faq", MdAtom>> >>
PathAdv == << <<"advanced-proxy-solutions", MdAtom>> >>
PathLogo == << <<"proxies">>, <<"logo", ".png">> >>

\* The lines "- [title](path)" a manifest is made of
ManifestLines ==
    { [title |-> "Intro", path |-> PathIntro],
      [title |-> "Intro (copy)", path |-> PathIntro2],
      [title |-> "FAQ", path |-> PathFaq],
      [title |-> "Advanced", path |-> PathAdv],
      [title |-> "Logo", path |-> PathLogo] }

RECURSIVE SeqsUpTo(_, _)
SeqsUpTo(S, n) ==
    IF n = 0 THEN {<<>>}
    ELSE LET shorter == SeqsUpTo(S, n - 1)
         IN shorter \cup {Append(q, x) : q \in shorter, x \in S}

\* What safe_request(llms_url) can return: None (request failed) or a text
LlmsResponses ==
    {[ok |-> FALSE, text |-> <<>>]} \cup
    {[ok |-> TRUE, text |-> t] : t \in SeqsUpTo(ManifestLines, MaxManifest)}

\* re "- \[([^\]]+)\]\((/[^\)]+\.md)\)": the link target ends in ".md"
MatchesPattern(line) ==
    /\ line.path # <<>>
    /\ LET last == line.path[Len(line.path)]
       IN last # <<>> /\ last[Len(last)] = MdAtom
          /\ (Len(last) > 1 \/ Len(line.path) > 1)

PageOfMatch(line) ==
    LET web_url == urljoin(BASE_URL, ReplaceMd(line.path))
        md_url == urljoin(BASE_URL, line.path)
        section == FirstSegment(web_url)
    IN NewPage(web_url, md_url, line.title, section)

extract_pages_from_llms(resp) ==
    IF ~resp.ok \/ resp.text = <<>> THEN <<>>
    ELSE LET matches == SelectSeq(resp.text, MatchesPattern)
         IN [i \in 1..Len(matches) |-> PageOfMatch(matches[i])]

\* date_parser.parse / float(): the texts considered and their values
DateTable == [t \in {"2024-05-01"} |-> [y |-> 2024, m |-> 5, d |-> 1]]
FloatTable == [t \in {"0.8"} |-> 8]    \* in tenths

ParseLastmod(t) == IF t \in DOMAIN DateTable THEN Some(DateTable[t]) ELSE NoneDate
ParsePriority(t) == IF t \in DOMAIN FloatTable THEN Some(FloatTable[t]) ELSE NoneInt

UrlIntro == urljoin(BASE_URL, << <<"proxies">>, <<"intro">> >>)
UrlFaq == urljoin(BASE_URL, << <<"guides">>, <<"faq">> >>)
UrlOnlySitemap == urljoin(BASE_URL, << <<"proxies">>, <<"pricing">> >>)

\* <url> entries of a sitemap: has_loc = FALSE when the entry has no <loc>
\* element, loc = NoUrl when the element's text is empty; lastmod and priority
\* are the element texts ("" when the element is absent or empty)
SitemapEntries ==
    { [has_loc |-> TRUE, loc |-> UrlIntro, lastmod |-> "2024-05-01", priority |-> "0.8"],
      [has_loc |-> TRUE, loc |-> UrlIntro, lastmod |-> "yesterday", priority |-> "high"],
      [has_loc |-> TRUE, loc |-> UrlFaq, lastmod |-> "", priority |-> "0.8"],
      [has_loc |-> TRUE, loc |-> UrlOnlySitemap, lastmod |-> "2024-05-01", priority |-> ""],
      [has_loc |-> TRUE, loc |-> NoUrl, lastmod |-> "2024-05-01", priority |-> "0.8"],
      [has_loc |-> FALSE, loc |-> NoUrl, lastmod |-> "2024-05-01", priority |-> "0.8"] }

\* What safe_request(sitemap_url) can return: None, or a text that is empty,
\* not well-formed XML, or a well-formed sitemap
SitemapResponses ==
    { [ok |-> FALSE, wellformed |-> FALSE, urls |-> <<>>, empty |-> TRUE],
      [ok |-> TRUE, wellformed |-> FALSE, urls |-> <<>>, empty |-> TRUE],
      [ok |-> TRUE, wellformed |-> FALSE, urls |-> <<>>, empty |-> FALSE] } \cup
    { [ok |-> TRUE, wellformed |-> TRUE, urls |-> u, empty |-> FALSE] :
        u \in SeqsUpTo(SitemapEntries, MaxSitemap) }

EmptyMeta == [u \in {} |-> [lastmod |-> NoneDate, priority |-> NoneInt]]

\* the for loop over root.findall("url"); returns [exc, meta]
RECURSIVE SitemapLoop(_, _, _)
SitemapLoop(urls, i, m) ==
    IF i > Len(urls) THEN [exc |-> "None", meta |-> m]
    ELSE LET e == urls[i]
         IN IF ~e.has_loc THEN [exc |-> "AttributeError", meta |-> EmptyMeta]
            ELSE IF e.loc = NoUrl THEN SitemapLoop(urls, i + 1, m)
            ELSE LET entry == [lastmod |-> ParseLastmod(e.lastmod),
                               priority |-> ParsePriority(e.priority)]
                     m2 == [u \in DOMAIN m \cup {e.loc} |->
                               IF u = e.loc THEN entry ELSE m[u]]
                 IN SitemapLoop(urls, i + 1, m2)

extract_metadata_from_sitemap(resp) ==
    IF ~resp.ok \/ resp.empty THEN [exc |-> "None", meta |-> EmptyMeta]
    ELSE IF ~resp.wellformed THEN [exc |-> "ParseError", meta |-> EmptyMeta]
    ELSE SitemapLoop(resp.urls, 1, EmptyMeta)

\* an inner join: pages the sitemap does not list are dropped
merge_inner_join(ps, m) ==
    LET kept == SelectSeq(ps, LAMBDA p : p.url \in DOMAIN m)
    IN [i \in 1..Len(kept) |->
          [kept[i] EXCEPT !.lastmod = m[kept[i].url].lastmod,
                          !.priority = m[kept[i].url].priority]]

MergePage(p, m) ==
    IF p.url \in DOMAIN m
    THEN [p EXCEPT !.lastmod = m[p.url].lastmod, !.priority = m[p.url].priority]
    ELSE p

merge_pages_with_sitemap(ps, m) == [i \in 1..Len(ps) |-> MergePage(ps[i], m)]

----------------------------------------------------------------------------
(* crawler.py *)

\* include_sections passed by bootstrap_chroma
IncludeSections == {<<"proxies">>, <<"advanced-proxy-solutions">>}

FilterSections(ps, include) ==
    IF include = {} THEN ps ELSE SelectSeq(ps, LAMBDA p : p.section \in include)

\* DocCrawler.crawl: [exc, pages]
crawl(llms_resp, sitemap_resp, include) ==
    LET llms_pages == extract_pages_from_llms(llms_resp)
        sm == extract_metadata_from_sitemap(sitemap_resp)
    IN IF sm.exc # "None" THEN [exc |-> sm.exc, pages |-> <<>>]
       ELSE [exc |-> "None",
             pages |-> FilterSections(merge_pages_with_sitemap(llms_pages, sm.meta), include)]

----------------------------------------------------------------------------
(* Markdown texts *)

\* a line whose text is the atoms given, tokens long for the tokenizer
TextLine(atoms, n) ==
    [k |-> IF atoms = <<>> THEN "b" ELSE "t", lvl |-> 0, name |-> "",
     tokens |-> n, text |-> atoms, trs |-> <<>>]

Heading(lvl, name) ==
    [k |-> "h", lvl |-> lvl, name |-> name, tokens |-> 4,
     text |-> <<"#", name>>, trs |-> <<>>]
Prose(n) == TextLine(<<"text">>, n)
Directive ==
    [k |-> "d", lvl |-> 0, name |-> "", tokens |-> 6,
     text |-> <<"{%", "hint", "%}">>, trs |-> <<>>]
Blank == TextLine(<<>>, 0)

\* lines that hold a directive tag together with prose
TagProseTag == TextLine(<<"{%", "tab", "%}", "text", "{%", "endtab", "%}">>, 12)
TagThenProse == TextLine(<<"{%", "hint", "%}", "text">>, 7)
ProseThenTag == TextLine(<<"text", "{%", "endhint", "%}">>, 7)
\* a markdown block quote: "> text"
Quote == TextLine(<<">", "text">>, 2)

\* a line holding one <table> element: trs is the sequence of its <tr>
\* elements, each with the texts of its <th> and of its <td> cells
Tr(th, td) == [th |-> th, td |-> td]
Table(trs) ==
    [k |-> "table", lvl |-> 0, name |-> "", tokens |-> 20,
     text |-> <<>>, trs |-> trs]

IsBlank(l) == l.k = "b"
IsTable(l) == l.k = "table"

\* number of leading blank lines of ls
RECURSIVE LeadingBlanks(_)
LeadingBlanks(ls) ==
    IF ls = <<>> \/ ~IsBlank(Head(ls)) THEN 0 ELSE 1 + LeadingBlanks(Tail(ls))

DropFirst(ls, n) == SubSeq(ls, n + 1, Len(ls))

\* \{%\s*.*?\s*%\} anchored by ^\s* and \s*$ on one line: the line starts
\* with "{%" and ends with "%}" (.*? takes whatever lies between them)
MatchesDirectivePattern(l) ==
    /\ Len(l.text) >= 2
    /\ l.text[1] = "{%"
    /\ l.text[Len(l.text)] = "%}"

\* re.sub(r"^\s*\{%\s*.*?\s*%\}\s*$", "", md, flags=re.MULTILINE), leftmost
\* match first.  A match starts at a line start and takes the empty lines
\* before a matching line (\s matches line breaks) and the line itself.  The
\* trailing \s* takes the empty lines after it and gives back the last line
\* break, so that $ holds: with k >= 1 empty lines after it and text behind
\* them the match ends at the start of the last empty line, where the scan
\* goes on; with only empty lines up to the end of the text it takes them all.
RECURSIVE RemoveDirectiveLines(_)
RemoveDirectiveLines(ls) ==
    IF ls = <<>> THEN <<>>
    ELSE LET nb == LeadingBlanks(ls)
         IN IF nb < Len(ls) /\ MatchesDirectivePattern(ls[nb + 1])
            THEN LET rest == DropFirst(ls, nb + 1)
                     k == LeadingBlanks(rest)
                 IN IF k = Len(rest) THEN <<Blank>>
                    ELSE IF k = 0 THEN <<Blank>> \o RemoveDirectiveLines(rest)
                    ELSE RemoveDirectiveLines(DropFirst(rest, k - 1))
            ELSE <<Head(ls)>> \o RemoveDirectiveLines(Tail(ls))

\* html.parser decodes character references in text
Unescape(atom) ==
    CASE atom = "&gt;" -> ">"
      [] atom = "&amp;" -> "&"
      [] OTHER -> atom

\* str(soup), formatter "minimal": "&", "<" and ">" in text are written as
\* character references
Escape(atom) ==
    CASE atom = ">" -> "&gt;"
      [] atom = "&" -> "&amp;"
      [] OTHER -> atom

UnescapeText(atoms) == [i \in 1..Len(atoms) |-> Unescape(atoms[i])]
EscapeText(atoms) == [i \in 1..Len(atoms) |-> Escape(atoms[i])]

\* " | ".join(cells)
RECURSIVE JoinCells(_)
JoinCells(cells) ==
    IF cells = <<>> THEN <<>>
    ELSE IF Len(cells) = 1 THEN cells[1]
    ELSE cells[1] \o <<"|">> \o JoinCells(Tail(cells))

\* table.find_all("th"): the header cells of every row, in document order
RECURSIVE TableHeaders(_)
TableHeaders(trs) ==
    IF trs = <<>> THEN <<>>
    ELSE [i \in 1..Len(Head(trs).th) |-> UnescapeText(Head(trs).th[i])]
         \o TableHeaders(Tail(trs))

\* the <td> texts of every <tr> that has <td> cells
RECURSIVE TableRows(_)
TableRows(trs) ==
    IF trs = <<>> THEN <<>>
    ELSE LET cells == [i \in 1..Len(Head(trs).td) |-> UnescapeText(Head(trs).td[i])]
         IN (IF cells # <<>> THEN <<cells>> ELSE <<>>) \o TableRows(Tail(trs))

\* table_lines of one table
TableLines(trs) ==
    LET headers == TableHeaders(trs)
        rows == TableRows(trs)
    IN <<TextLine(<<"**Table:**">>, 3)>>
       \o (IF headers # <<>>
           THEN <<TextLine(JoinCells(headers), Len(JoinCells(headers))),
                  TextLine(JoinCells([i \in 1..Len(headers) |-> <<"---">>]),
                           2 * Len(headers) - 1)>>
           ELSE <<>>)
       \o [i \in 1..Len(rows) |-> TextLine(JoinCells(rows[i]), Len(JoinCells(rows[i])))]

\* the parse tree after the loop over soup.find_all("table"): every table is
\* replaced by "\n" + table_md + "\n", every other line holds its decoded text
RECURSIVE ReplaceTables(_)
ReplaceTables(ls) ==
    IF ls = <<>> THEN <<>>
    ELSE (IF IsTable(Head(ls))
          THEN <<Blank>> \o TableLines(Head(ls).trs) \o <<Blank>>
          ELSE <<[Head(ls) EXCEPT !.text = UnescapeText(@)]>>)
         \o ReplaceTables(Tail(ls))

convert_html_tables_to_markdown(ls) ==
    LET tree == ReplaceTables(ls)
    IN [i \in 1..Len(tree) |-> [tree[i] EXCEPT !.text = EscapeText(@)]]

Reverse(ls) == [i \in 1..Len(ls) |-> ls[Len(ls) + 1 - i]]

\* str.strip() at line granularity
Strip(ls) ==
    LET a == DropFirst(ls, LeadingBlanks(ls))
    IN Reverse(DropFirst(Reverse(a), LeadingBlanks(Reverse(a))))

clean_markdown_content(ls) ==
    Strip(convert_html_tables_to_markdown(RemoveDirectiveLines(ls)))

----------------------------------------------------------------------------
(* chunker.py *)

chunk_size == 1000
chunk_overlap == 100

\* headers_to_split_on: "#", "##", "###"
HeaderLevels == {1, 2, 3}
NoHeaders == [l \in HeaderLevels |-> ""]

IsSplitHeader(l) == l.k = "h" /\ l.lvl \in HeaderLevels

\* the header stack after a heading of level lvl: deeper and equal levels popped
PushHeader(hs, lvl, name) ==
    [l \in HeaderLevels |-> IF l < lvl THEN hs[l] ELSE IF l = lvl THEN name ELSE ""]

NumHeaders(hs) == Cardinality({l \in HeaderLevels : hs[l] # ""})

\* MarkdownHeaderTextSplitter.split_text, the loop over the lines
\* (strip_headers=False): blocks of content lines with the header metadata
\* current when the block was filled
RECURSIVE HeaderLines(_, _, _, _)
HeaderLines(ls, content, hs, out) ==
    LET flushed == IF content = <<>> THEN out
                   ELSE Append(out, [content |-> content, headers |-> hs])
    IN IF ls = <<>> THEN flushed
       ELSE LET l == Head(ls)
            IN IF IsSplitHeader(l)
               THEN HeaderLines(Tail(ls), <<l>>, PushHeader(hs, l.lvl, l.name), flushed)
                    \* the block flushed here carries the metadata before the heading
               ELSE IF ~IsBlank(l) THEN HeaderLines(Tail(ls), Append(content, l), hs, out)
               ELSE HeaderLines(Tail(ls), <<>>, hs, flushed)

\* MarkdownHeaderTextSplitter.aggregate_lines_to_chunks
RECURSIVE AggregateLines(_, _)
AggregateLines(blocks, agg) ==
    IF blocks = <<>> THEN agg
    ELSE LET b == Head(blocks)
             n == Len(agg)
         IN IF n > 0 /\ agg[n].headers = b.headers
            THEN AggregateLines(Tail(blocks),
                     [agg EXCEPT ![n].content = agg[n].content \o b.content])
            ELSE IF /\ n > 0
                    /\ NumHeaders(agg[n].headers) < NumHeaders(b.headers)
                    /\ agg[n].content[Len(agg[n].content)].k = "h"
                 THEN AggregateLines(Tail(blocks),
                          [agg EXCEPT ![n].content = agg[n].content \o b.content,
                                      ![n].headers = b.headers])
                 ELSE AggregateLines(Tail(blocks), Append(agg, b))

\* header_splitter.split_text(text)
HeaderSplit(text) == AggregateLines(HeaderLines(text, <<>>, NoHeaders, <<>>), <<>>)

RECURSIVE SumTokens(_)
SumTokens(ls) == IF ls = <<>> THEN 0 ELSE Head(ls).tokens + SumTokens(Tail(ls))

\* recursive_splitter.split_documents([doc]): the number of windows of at most
\* chunk_size tokens, consecutive windows sharing chunk_overlap tokens (the
\* library cuts at separators, so it may emit more windows, never fewer)
NumWindows(seg) ==
    LET t == SumTokens(seg.content)
        step == chunk_size - chunk_overlap
    IN IF t <= chunk_size THEN 1
       ELSE ((t - chunk_overlap) + step - 1) \div step

\* for i, chunk in enumerate(sub_chunks): chunk.metadata["chunk_index"] = i
\* seg_no and before (the number of chunks emitted for earlier segments) are
\* known to the loop
ChunkIndex(seg_no, i, before) == i

SegmentChunks(seg, seg_no, metadata, before) ==
    [w \in 1..NumWindows(seg) |->
        [page |-> metadata, headers |-> seg.headers, window |-> w,
         chunk_index |-> ChunkIndex(seg_no, w - 1, before)]]

RECURSIVE ChunkLoop(_, _, _, _)
ChunkLoop(segs, seg_no, metadata, out) ==
    IF seg_no > Len(segs) THEN out
    ELSE ChunkLoop(segs, seg_no + 1, metadata,
                   out \o SegmentChunks(segs[seg_no], seg_no, metadata, Len(out)))

\* MarkdownChunker.chunk
chunk(text, metadata) ==
    IF text = <<>> THEN <<>>
    ELSE ChunkLoop(HeaderSplit(text), 1, metadata, <<>>)

----------------------------------------------------------------------------
(* models.py: Page.load; scrapper.py: DocScraper.scrape *)

\* Raw bodies a documentation server answers with
BodyEmpty == <<>>
BodyDirectives == <<Directive, Blank, Directive>>
BodyPlain == <<Prose(50)>>
BodySections ==
    <<Heading(1, "Intro"), Prose(30), Directive, Blank,
      Heading(2, "Usage"), Prose(1500), Blank,
      Heading(1, "Reference"), Prose(92000)>>

Bodies == {BodyEmpty, BodyDirectives, BodyPlain, BodySections}

\* The outcome of session.get(md_url, timeout): status 0 stands for a request
\* that raised (connection error, timeout), otherwise the HTTP status
Responses ==
    {[status |-> 0, body |-> <<>>], [status |-> 404, body |-> <<>>]} \cup
    {[status |-> 200, body |-> b] : b \in Bodies}

\* r.raise_for_status() does not raise
FetchOk(resp) == resp.status >= 200 /\ resp.status < 400

\* datetime.now(timezone.utc): the value read plays no part in any decision
\* of the program, so one reading stands for all
Now == [y |-> 2025, m |-> 1, d |-> 1]

\* Page.load: clean is FALSE when clean_fn is None
load(p, resp, clean) ==
    IF FetchOk(resp)
    THEN LET content == IF clean THEN clean_markdown_content(resp.body) ELSE resp.body
         IN [p EXCEPT !.md = Some(content), !.loaded = TRUE, !.scraped_at = Some(Now)]
    ELSE [p EXCEPT !.loaded = FALSE]

\* "if limit and i >= limit: break": the number of pages the loop visits
Visited(n, limit) ==
    IF limit.some /\ limit.v # 0 /\ limit.v < n THEN limit.v ELSE n

\* the loop with a load that lets the request's exception escape: the first
\* failed fetch ends the loop and the call
scrape_abort_on_failure(ps, limit, resps, clean) ==
    LET n == Visited(Len(ps), limit)
        failed == {i \in 1..n : ~FetchOk(resps[i])}
        stop == IF failed = {} THEN n + 1
                ELSE CHOOSE i \in failed : \A j \in failed : i <= j
    IN [exc |-> IF failed = {} THEN "None" ELSE "RequestException",
        pages |-> [i \in 1..Len(ps) |->
                     IF i < stop /\ i <= n THEN load(ps[i], resps[i], clean) ELSE ps[i]]]

\* DocScraper.scrape: resps[i] answers the GET for pages[i]
scrape(ps, limit, resps, clean) ==
    [exc |-> "None",
     pages |-> [i \in 1..Len(ps) |->
                  IF i <= Visited(Len(ps), limit)
                  THEN load(ps[i], resps[i], clean) ELSE ps[i]]]

Limits == {NoneInt} \cup {Some(n) : n \in 0..MaxLimit}

----------------------------------------------------------------------------
(* chunker.py: MarkdownChunker.chunk_pages *)

\* "not getattr(page, 'md', None)"
NoMarkdown(p) == ~p.md.some \/ p.md.v = <<>>

RECURSIVE ChunkPagesLoop(_, _, _, _)
ChunkPagesLoop(ps, i, n, all_docs) ==
    IF i > n THEN all_docs
    ELSE IF NoMarkdown(ps[i]) THEN ChunkPagesLoop(ps, i + 1, n, all_docs)
    ELSE ChunkPagesLoop(ps, i + 1, n,
                        all_docs \o chunk(ps[i].md.v, to_metadata(ps[i])))

chunk_pages(ps, limit) == ChunkPagesLoop(ps, 1, Visited(Len(ps), limit), <<>>)

----------------------------------------------------------------------------
(* chroma_store.py: ChromaStore *)

batch_size == 100

\* os.makedirs(persist_dir, exist_ok=True) in ChromaStore.__init__
MakeDirs(dir) == [dir EXCEPT !.exists = TRUE]

NumBatches(total) == (total + batch_size - 1) \div batch_size

Min(a, b) == IF a < b THEN a ELSE b

\* ChromaStore.build: fail_at = 0 when every batch is embedded and written,
\* otherwise the number of the batch whose embedding call raises.  Returns
\* [exc, dir, complete].  dir.written counts the documents in the directory;
\* files the store may create before the first batch is embedded are not
\* counted, so a directory is taken as non-empty only once a batch is in it.
build(dir, chunks, fail_at) ==
    IF chunks = <<>> THEN [exc |-> "None", dir |-> dir, complete |-> FALSE]
    ELSE IF fail_at = 0
         THEN [exc |-> "None", complete |-> TRUE,
               dir |-> [dir EXCEPT !.written = @ + Len(chunks)]]
         ELSE [exc |-> "APIConnectionError", complete |-> FALSE,
               dir |-> [dir EXCEPT !.written =
                           @ + Min(Len(chunks), (fail_at - 1) * batch_size)]]

----------------------------------------------------------------------------
(* populate_store.py: bootstrap_chroma, one action per statement *)

NoCall == [op |-> "none", limit |-> NoneInt]

NoDir == [exists |-> FALSE, written |-> 0]

\* the guard without the any(os.scandir(...)) half
IndexFound_exists_only(dir) == dir.exists

\* os.path.exists(persist_dir) and any(os.scandir(persist_dir))
IndexFound(dir) == dir.exists /\ dir.written > 0

\* the statements of bootstrap_chroma after the guard, in program order
Stages == <<"llms", "sitemap", "merge", "filter", "scrape", "chunk", "build">>

StageAfter(stage) ==
    LET i == CHOOSE j \in 1..Len(Stages) : Stages[j] = stage
    IN IF i = Len(Stages) THEN "done" ELSE Stages[i + 1]

\* no call of the cleaning functions is under way
NoClean == [op |-> "none", arg |-> <<>>, md |-> <<>>, pc |-> "idle", nth |-> 0]

Init ==
    /\ pages = <<>>
    /\ meta = EmptyMeta
    /\ docs = <<>>
    /\ http = <<>>
    /\ call = NoCall
    /\ exc = "None"
    /\ pc = "check"
    /\ log = <<>>
    /\ persist = NoDir
    /\ built = "none"
    /\ cleaner = NoClean

\* line 34-36: the index is there, return
SkipBootstrap ==
    /\ pc = "check"
    /\ IndexFound(persist)
    /\ pc' = "done"
    /\ log' = Append(log, "found_existing")
    /\ UNCHANGED <<cleaner, pages, meta, docs, http, call, exc, persist, built>>

\* line 38: no index, go on
BeginBootstrap ==
    /\ pc = "check"
    /\ ~IndexFound(persist)
    /\ pc' = Stages[1]
    /\ log' = Append(log, "building")
    /\ UNCHANGED <<cleaner, pages, meta, docs, http, call, exc, persist, built>>

\* crawler.py line 36
CrawlLlms ==
    /\ pc = "llms"
    /\ \E resp \in LlmsResponses : pages' = extract_pages_from_llms(resp)
    /\ pc' = StageAfter(pc)
    /\ log' = Append(log, pc)
    /\ UNCHANGED <<cleaner, meta, docs, http, call, exc, persist, built>>

\* crawler.py line 37
CrawlSitemap ==
    /\ pc = "sitemap"
    /\ \E resp \in SitemapResponses :
         LET r == extract_metadata_from_sitemap(resp)
         IN /\ exc' = r.exc
            /\ meta' = r.meta
            /\ pc' = IF r.exc = "None" THEN StageAfter(pc) ELSE "raised"
    /\ log' = Append(log, pc)
    /\ UNCHANGED <<cleaner, pages, docs, http, call, persist, built>>

\* crawler.py line 38
CrawlMerge ==
    /\ pc = "merge"
    /\ pages' = merge_pages_with_sitemap(pages, meta)
    /\ pc' = StageAfter(pc)
    /\ log' = Append(log, pc)
    /\ UNCHANGED <<cleaner, meta, docs, http, call, exc, persist, built>>

\* crawler.py lines 40-44, include_sections of populate_store.py line 42;
\* crawl returns and its local sitemap_meta is gone
CrawlFilter ==
    /\ pc = "filter"
    /\ pages' = FilterSections(pages, IncludeSections)
    /\ meta' = EmptyMeta
    /\ pc' = StageAfter(pc)
    /\ log' = Append(log, pc)
    /\ UNCHANGED <<cleaner, docs, http, call, exc, persist, built>>

\* populate_store.py lines 46-47
Scrape ==
    /\ pc = "scrape"
    /\ \E resps \in [1..Len(pages) -> Responses] :
         LET r == scrape(pages, NoneInt, resps, TRUE)
         IN /\ pages' = r.pages
            /\ exc' = r.exc
            /\ http' = resps
            /\ pc' = IF r.exc = "None" THEN StageAfter(pc) ELSE "raised"
    /\ log' = Append(log, pc)
    /\ UNCHANGED <<cleaner, meta, docs, call, persist, built>>

\* populate_store.py lines 48-53
Chunk ==
    /\ pc = "chunk"
    /\ docs' = chunk_pages(SelectSeq(pages, LAMBDA p : p.loaded), NoneInt)
    /\ http' = <<>>
    /\ pc' = StageAfter(pc)
    /\ log' = Append(log, pc)
    /\ UNCHANGED <<cleaner, pages, meta, call, exc, persist, built>>

\* populate_store.py lines 57-59
Build ==
    /\ pc = "build"
    /\ \E fail_at \in 0..NumBatches(Len(docs)) :
         LET r == build(MakeDirs(persist), docs, fail_at)
         IN /\ persist' = r.dir
            /\ exc' = r.exc
            /\ built' = IF r.complete THEN "complete"
                        ELSE IF r.dir.written > 0 THEN "partial" ELSE built
            /\ pc' = IF r.exc = "None" THEN StageAfter(pc) ELSE "raised"
            /\ log' = IF r.exc = "None" THEN log \o <<pc, "initialized">>
                      ELSE Append(log, pc)
    /\ UNCHANGED <<cleaner, pages, meta, docs, http, call>>

\* the process is started again (app startup, or the script run once more)
Rerun ==
    /\ pc \in {"done", "raised"}
    /\ pc' = "check"
    /\ pages' = <<>>
    /\ meta' = EmptyMeta
    /\ docs' = <<>>
    /\ http' = <<>>
    /\ exc' = "None"
    /\ log' = <<>>
    /\ UNCHANGED <<cleaner, call, persist, built>>

Next ==
    \/ SkipBootstrap
    \/ BeginBootstrap
    \/ CrawlLlms
    \/ CrawlSitemap
    \/ CrawlMerge
    \/ CrawlFilter
    \/ Scrape
    \/ Chunk
    \/ Build
    \/ Rerun

Spec == Init /\ [][Next]_vars

----------------------------------------------------------------------------
(* The library used directly: a page list obtained from discovery, then any
   sequence of Page.load, DocScraper.scrape, MarkdownChunker.chunk_pages and
   MarkdownChunker.chunk calls on it.  The scraper is the one populate_store
   builds, DocScraper(clean_fn=clean_markdown_content). *)

\* a manifest of pairwise different pages, long enough for every list length
LibManifest ==
    << [title |-> "Intro", path |-> PathIntro],
       [title |-> "Advanced", path |-> PathAdv],
       [title |-> "FAQ", path |-> PathFaq],
       [title |-> "Logo", path |-> PathLogo],
       [title |-> "Intro (copy)", path |-> PathIntro2] >>

LibResponses ==
    { [status |-> 0, body |-> <<>>],
      [status |-> 200, body |-> BodyEmpty],
      [status |-> 200, body |-> BodyDirectives],
      [status |-> 200, body |-> BodyPlain] }

\* texts handed to MarkdownChunker.chunk
ChunkTexts == Bodies \cup {clean_markdown_content(b) : b \in Bodies}

InitLib ==
    /\ \E n \in 0..MaxLibPages :
         pages = SubSeq(extract_pages_from_llms([ok |-> TRUE, text |-> LibManifest]), 1, n)
    /\ meta = EmptyMeta
    /\ docs = <<>>
    /\ http = <<>>
    /\ call = NoCall
    /\ exc = "None"
    /\ pc = "lib"
    /\ log = <<>>
    /\ persist = NoDir
    /\ built = "none"
    /\ cleaner = NoClean

LibLoad ==
    /\ \E i \in 1..Len(pages), resp \in LibResponses :
         /\ pages' = [pages EXCEPT ![i] = load(@, resp, TRUE)]
         /\ http' = <<resp>>
    /\ call' = [op |-> "load", limit |-> NoneInt]
    /\ exc' = "None"
    /\ docs' = <<>>
    /\ UNCHANGED <<cleaner, meta, pc, log, persist, built>>

LibScrape ==
    /\ \E limit \in Limits :
         \E resps \in [1..Visited(Len(pages), limit) -> LibResponses] :
            LET r == scrape(pages, limit, resps, TRUE)
            IN /\ pages' = r.pages
               /\ exc' = r.exc
               /\ http' = resps
               /\ call' = [op |-> "scrape", limit |-> limit]
    /\ docs' = <<>>
    /\ UNCHANGED <<cleaner, meta, pc, log, persist, built>>

LibChunkPages ==
    /\ \E limit \in Limits :
         /\ docs' = chunk_pages(pages, limit)
         /\ call' = [op |-> "chunk_pages", limit |-> limit]
    /\ exc' = "None"
    /\ http' = <<>>
    /\ UNCHANGED <<cleaner, pages, meta, pc, log, persist, built>>

LibChunk ==
    /\ \E i \in 1..Len(pages), text \in ChunkTexts :
         docs' = chunk(text, to_metadata(pages[i]))
    /\ call' = [op |-> "chunk", limit |-> NoneInt]
    /\ exc' = "None"
    /\ http' = <<>>
    /\ UNCHANGED <<cleaner, pages, meta, pc, log, persist, built>>

NextLib ==
    \/ LibLoad
    \/ LibScrape
    \/ LibChunkPages
    \/ LibChunk

SpecLib == InitLib /\ [][NextLib]_vars

----------------------------------------------------------------------------
(* utils.py: the cleaning functions applied to markdown texts, one action per
   statement of clean_markdown_content *)

\* the table of a page: a header row of two cells and two data rows
TableTwoByTwo ==
    Table(<<Tr(<<<<"Name">>, <<"Type">>>>, <<>>),
            Tr(<<>>, <<<<"a">>, <<"int">>>>),
            Tr(<<>>, <<<<"b">>, <<"str">>>>)>>)
\* a table without <th> cells
TableNoHeader == Table(<<Tr(<<>>, <<<<"a">>, <<"b">>>>)>>)
\* a table whose only cell documents a directive tag
TableDirectiveCell == Table(<<Tr(<<>>, <<<<"{%", "hint", "%}">>>>)>>)

CleanLines ==
    {Blank, Directive, TagProseTag, TagThenProse, ProseThenTag, Prose(50),
     Quote, TableTwoByTwo, TableNoHeader, TableDirectiveCell}

CleanTexts == UNION {[1..n -> CleanLines] : n \in 0..MaxCleanLen}

InitClean ==
    /\ pages = <<>>
    /\ meta = EmptyMeta
    /\ docs = <<>>
    /\ http = <<>>
    /\ call = NoCall
    /\ exc = "None"
    /\ pc = "lib"
    /\ log = <<>>
    /\ persist = NoDir
    /\ built = "none"
    /\ \E op \in {"clean", "convert"}, x \in CleanTexts :
         cleaner = [op |-> op, arg |-> x, md |-> x, pc |-> "entry", nth |-> 0]

\* line 121: the directive lines are removed
CleanRemoveTags ==
    /\ cleaner.op = "clean" /\ cleaner.pc = "entry"
    /\ cleaner' = [cleaner EXCEPT !.md = RemoveDirectiveLines(@), !.pc = "l121"]
    /\ UNCHANGED <<pages, meta, docs, http, call, exc, pc, log, persist, built>>

\* line 123: the tables are converted
CleanConvertTables ==
    /\ cleaner.op = "clean" /\ cleaner.pc = "l121"
    /\ cleaner' = [cleaner EXCEPT !.md = convert_html_tables_to_markdown(@),
                                  !.pc = "l123"]
    /\ UNCHANGED <<pages, meta, docs, http, call, exc, pc, log, persist, built>>

\* line 125: return md.strip()
CleanReturn ==
    /\ cleaner.op = "clean" /\ cleaner.pc = "l123"
    /\ cleaner' = [cleaner EXCEPT !.md = Strip(@), !.pc = "ret"]
    /\ UNCHANGED <<pages, meta, docs, http, call, exc, pc, log, persist, built>>

\* the caller cleans the text it got back
CleanAgain ==
    /\ cleaner.op = "clean" /\ cleaner.pc = "ret"
    /\ cleaner.nth < MaxReapply
    /\ cleaner' = [cleaner EXCEPT !.arg = cleaner.md, !.pc = "entry",
                                  !.nth = @ + 1]
    /\ UNCHANGED <<pages, meta, docs, http, call, exc, pc, log, persist, built>>

\* convert_html_tables_to_markdown called on its own
ConvertCall ==
    /\ cleaner.op = "convert" /\ cleaner.pc = "entry"
    /\ cleaner' = [cleaner EXCEPT !.md = convert_html_tables_to_markdown(@),
                                  !.pc = "ret"]
    /\ UNCHANGED <<pages, meta, docs, http, call, exc, pc, log, persist, built>>

NextClean ==
    \/ CleanRemoveTags
    \/ CleanConvertTables
    \/ CleanReturn
    \/ CleanAgain
    \/ ConvertCall

SpecClean == InitClean /\ [][NextClean]_vars

----------------------------------------------------------------------------
(* Claims *)

\* C1: the chunk_index values of the chunks MarkdownChunker.chunk returns for
\* one document, read in emission order, are exactly 0, 1, ..., n-1; the
\* counter does not restart at a heading segment.
C1_ChunkIndexContiguous ==
    call.op = "chunk" => \A k \in 1..Len(docs) : docs[k].chunk_index = k - 1

\* C2: DocScraper.scrape does not raise when fetches fail, attempts every page
\* (also those after a failing one), returns the same pages in the same order,
\* and leaves loaded = FALSE on exactly the pages whose fetch failed; what a
\* page ends as depends on its own fetch only.
C2_ScrapeIsolatesFailures ==
    [][pc = "scrape" =>
         /\ exc' = "None"
         /\ pc' # "raised"
         /\ Len(pages') = Len(pages)
         /\ Len(http') = Len(pages)
         /\ \A i \in 1..Len(pages) :
              LET ok == http'[i].status >= 200 /\ http'[i].status < 400
                  p == pages[i]
                  q == pages'[i]
              IN /\ q.url = p.url /\ q.md_url = p.md_url /\ q.title = p.title
                 /\ q.section = p.section /\ q.source = p.source
                 /\ q.lastmod = p.lastmod /\ q.priority = p.priority
                 /\ q.loaded = ok
                 /\ ~ok => q.md = p.md /\ q.scraped_at = p.scraped_at
                 /\ ok => q.md = Some(clean_markdown_content(http'[i].body))
                          /\ q.scraped_at.some
    ]_vars

\* a scrape in which a fetch failed and a later page was fetched and loaded
C2_Witness ==
    /\ pc = "chunk"
    /\ \E i, j \in 1..Len(pages) :
         /\ i < j
         /\ http[i].status \notin 200..399 /\ ~pages[i].loaded
         /\ http[j].status = 200 /\ pages[j].loaded /\ pages[j].md.v # <<>>

\* C3: after any sequence of Page.load / DocScraper.scrape calls, every page
\* has: loaded => md non-empty and scraped_at set; ~loaded => md is None.
C3_LoadedInvariant ==
    \A i \in 1..Len(pages) :
        /\ pages[i].loaded =>
             pages[i].md.some /\ pages[i].md.v # <<>> /\ pages[i].scraped_at.some
        /\ ~pages[i].loaded => ~pages[i].md.some

\* C4: a build that failed after writing some batches is surfaced to the
\* caller, and no later bootstrap_chroma run takes the partly written persist
\* directory for a built index (skips the rebuild).
C4_PartialIndexNeverAccepted ==
    /\ (built = "partial" /\ "build" \in {log[k] : k \in 1..Len(log)}) => pc = "raised"
    /\ (pc = "done" /\ log = <<"found_existing">>) => built = "complete"

\* C5: merge_pages_with_sitemap is a left join on the manifest pages: same
\* pages, same order, same length, nothing added for a sitemap-only URL;
\* lastmod / priority are non-null afterwards only for a page whose canonical
\* URL is a key of the mapping, the others keep None.
C5_MergeIsLeftJoin ==
    [][pc = "merge" =>
         /\ Len(pages') = Len(pages)
         /\ \A i \in 1..Len(pages) :
              LET p == pages[i]
                  q == pages'[i]
              IN /\ q.url = p.url /\ q.md_url = p.md_url /\ q.title = p.title
                 /\ q.section = p.section /\ q.source = p.source
                 /\ q.md = p.md /\ q.loaded = p.loaded /\ q.scraped_at = p.scraped_at
                 /\ (q.lastmod.some \/ q.priority.some) => q.url \in DOMAIN meta
                 /\ q.url \notin DOMAIN meta => ~q.lastmod.some /\ ~q.priority.some
    ]_vars

\* two manifest pages merged with a sitemap that covers one of them and also
\* lists a URL the manifest does not have
C5_Witness ==
    /\ pc = "filter"
    /\ Len(pages) = 2
    /\ pages[1].url # pages[2].url
    /\ Cardinality({i \in 1..2 : pages[i].lastmod.some}) = 1
    /\ UrlOnlySitemap \in DOMAIN meta

\* the order in which bootstrap_chroma runs its stages when it builds
BuildOrder ==
    <<"building", "llms", "sitemap", "merge", "filter", "scrape", "chunk", "build",
      "initialized">>

\* C6: bootstrap_chroma called with an existing, non-empty persist directory
\* does no discovery, fetch, chunking or index write and returns normally, so
\* once a non-empty index is built further runs leave it unchanged; called
\* with an absent or empty one it runs discovery, reconciliation, section
\* filter, fetch and chunk in that order before the build.
C6_IdempotentAtBuiltBoundary ==
    /\ [][(pc = "check" /\ persist.exists /\ persist.written > 0) =>
            /\ pc' = "done"
            /\ log' = <<"found_existing">>
            /\ exc' = "None"
            /\ UNCHANGED <<pages, meta, docs, http, persist, built>>]_vars
    /\ [][(pc = "check" /\ ~(persist.exists /\ persist.written > 0)) =>
            pc' = "llms" /\ log' = <<"building">>]_vars
    /\ [][built = "complete" => persist' = persist]_vars
    /\ [](log = <<"found_existing">> \/ log = SubSeq(BuildOrder, 1, Len(log)))
    /\ [](("build" \in {log[k] : k \in 1..Len(log)}) => Len(log) >= 8)

\* a further run that found the completely built index and skipped
C6_Witness ==
    /\ pc = "done"
    /\ log = <<"found_existing">>
    /\ built = "complete"
    /\ persist.written > 0

\* C7: chunk_pages gives no chunk for a page with loaded = FALSE, whose md is
\* absent (None or empty, nothing to chunk); the output is the concatenation, in page order, of the chunks of
\* the other pages, so every chunk carries the url of a page whose md is
\* present.
C7_UnloadedPagesExcluded ==
    call.op = "chunk_pages" =>
        /\ \A i \in 1..Len(pages) :
             ~pages[i].loaded =>
                /\ (~pages[i].md.some \/ pages[i].md.v = <<>>)
                /\ \A k \in 1..Len(docs) : docs[k].page.url # pages[i].url
        /\ \A k \in 1..Len(docs) :
             \E i \in 1..Len(pages) :
                /\ pages[i].url = docs[k].page.url
                /\ pages[i].md.some /\ pages[i].md.v # <<>>

\* C8: a run that produces zero chunks ends as a failure that reaches the
\* caller: bootstrap_chroma does not return normally reporting the vector
\* store as initialized.
C8_ZeroChunksIsFailure ==
    (pc = "done" /\ log # <<>> /\ log[Len(log)] = "initialized") => docs # <<>>

\* C9: discovery failures are not fatal: a sitemap that cannot be fetched or
\* parsed gives an empty mapping without raising, and a manifest that cannot
\* be fetched gives an empty page sequence without raising.
C9_DiscoveryNeverRaises ==
    (log # <<>> /\ log[Len(log)] \in {"llms", "sitemap", "merge", "filter"}) =>
        exc = "None" /\ pc # "raised"

\* C10: the pages discovery returns have pairwise distinct canonical URLs,
\* and each page's section is the first path segment of its canonical URL.
C10_UniqueUrlsAndSection ==
    /\ \A i, j \in 1..Len(pages) : i # j => pages[i].url # pages[j].url
    /\ \A i \in 1..Len(pages) : pages[i].section = pages[i].url.path[1]


\* C13: a scrape called with a limit L >= 0 (0 included) issues exactly one
\* GET for each of the first min(L, len(pages)) pages and none for the others,
\* whose md, loaded and scraped_at stay as they were; the returned list holds
\* all the pages in their original order.
C13_LimitBoundsFetches ==
    [][(call'.op = "scrape" /\ call'.limit.some) =>
         LET L == call'.limit.v
             n == Min(L, Len(pages))
         IN /\ Len(http') = n
            /\ Len(pages') = Len(pages)
            /\ \A i \in 1..Len(pages) :
                 /\ pages'[i].url = pages[i].url
                 /\ i > n => /\ pages'[i].md = pages[i].md
                             /\ pages'[i].loaded = pages[i].loaded
                             /\ pages'[i].scraped_at = pages[i].scraped_at
    ]_vars


\* the text without its empty lines
NonBlank(ls) == SelectSeq(ls, LAMBDA l : ~IsBlank(l))

\* a line that is, after trimming, one {% ... %} tag and nothing else
IsSingleTag(l) ==
    /\ Len(l.text) >= 2
    /\ l.text[1] = "{%"
    /\ l.text[Len(l.text)] = "%}"
    /\ \A i \in 2..(Len(l.text) - 1) : l.text[i] \notin {"{%", "%}"}

\* C12: step 1 of clean_markdown_content removes a line if and only if the
\* whole trimmed line is a single {% ... %} directive tag; a line holding a
\* tag together with prose, and a line without a tag, is left as it is
\* (empty lines set aside: removing a line may leave an empty one).
C12_OnlyDirectiveLinesRemoved ==
    (cleaner.op = "clean" /\ cleaner.pc = "l121") =>
        NonBlank(cleaner.md) = SelectSeq(NonBlank(cleaner.arg), LAMBDA l : ~IsSingleTag(l))


\* the header cells and the data rows of a table as the page wrote them
RECURSIVE HeaderCells(_)
HeaderCells(trs) ==
    IF trs = <<>> THEN <<>> ELSE Head(trs).th \o HeaderCells(Tail(trs))

DataRows(trs) ==
    LET withTd == SelectSeq(trs, LAMBDA tr : tr.td # <<>>)
    IN [i \in 1..Len(withTd) |-> withTd[i].td]

\* the lines that stand for a table of h header cells and r data rows: the
\* "**Table:**" line, with h >= 1 a header row and a separator of h dash
\* columns, then the r data rows in order
ClaimedTable(trs) ==
    LET hs == HeaderCells(trs)
        rs == DataRows(trs)
    IN <<<<"**Table:**">>>>
       \o (IF Len(hs) >= 1
           THEN <<JoinCells(hs), JoinCells([i \in 1..Len(hs) |-> <<"---">>])>>
           ELSE <<>>)
       \o [i \in 1..Len(rs) |-> JoinCells(rs[i])]

\* the texts of the lines of ls, every table replaced in place
RECURSIVE ClaimedConversion(_)
ClaimedConversion(ls) ==
    IF ls = <<>> THEN <<>>
    ELSE (IF IsTable(Head(ls)) THEN ClaimedTable(Head(ls).trs)
          ELSE <<Head(ls).text>>)
         \o ClaimedConversion(Tail(ls))

HasTable(ls) == \E i \in 1..Len(ls) : IsTable(ls[i])

\* C14: convert_html_tables_to_markdown replaces a table of h >= 1 header
\* cells and r data rows, in place, by a "**Table:**" line, one pipe-delimited
\* header row, one separator row of h dash columns and the r pipe-delimited
\* data rows in row order (no header row and no separator when the table has
\* no header cells); the text before and after the table is unchanged and no
\* <table> is left (empty lines set aside: the replacement text starts and
\* ends with a line break).
C14_TableReplacedInPlace ==
    (cleaner.op = "convert" /\ cleaner.pc = "ret" /\ HasTable(cleaner.arg)) =>
        /\ ~HasTable(cleaner.md)
        /\ LET out == NonBlank(cleaner.md)
           IN [i \in 1..Len(out) |-> out[i].text]
                = ClaimedConversion(NonBlank(cleaner.arg))


\* C11: clean_markdown_content is idempotent: cleaning a text that
\* clean_markdown_content returned gives that text back.
C11_CleanIdempotent ==
    (cleaner.op = "clean" /\ cleaner.pc = "ret" /\ cleaner.nth >= 1) =>
        cleaner.md = cleaner.arg

====
